---------------------------- MODULE Spec2Model ----------------------------
(***************************************************************************)
(* Model of the OCI cloud sizing scripts                                   *)
(*   src/OCI/CVOracleCloudSizingScript.py  (per-region rollup, 4 workloads)*)
(*   src/OCI/oci_cs.py                     (per-compartment rollup, 2)     *)
(*                                                                         *)
(* One behaviour is one invocation of one script for one workload, plus at *)
(* most one re-invocation that resolves to the same workbook file name.    *)
(*                                                                         *)
(* Numbers.  The scripts hold sizes as Python numbers with two decimals.   *)
(* Every GB and TB quantity of the model is the fixed-point value in       *)
(* hundredths: sizeGB = 60000 stands for 600.00 GB, sizeTB = 59 for        *)
(* 0.59 TB.  Float summation error (below 1e-9) is not modelled.           *)
(***************************************************************************)
EXTENDS Integers, Sequences, FiniteSets

VARIABLES
    script,        \* which source file runs
    workload,      \* --workload=
    rerun,         \* FALSE: first invocation; TRUE: re-invocation, same file
    regions,       \* the workload function's regions (<<>> until resolved)
    compartments,  \* the workload function's compartments
    pc,            \* position of the run
    ri,            \* index of the current region in regions
    ci,            \* index of the current compartment in compartments
    todo,          \* items of the current listing not yet iterated
    item,          \* loop variable: the listed resource last iterated
    item_list,     \* compartment_*_list: detail records of this compartment
    scope_summary, \* region_summary (CV) / compartment_summary (oci_cs)
    summary_list,  \* *_summary_list
    totals,        \* the module-level total_* counters
    workbook,      \* the .xlsx file of this run (NoWorkbook: no such file)
    kubeconfig_files, \* kubeconfig_<cluster.id> files in the temp directory
    tools,         \* which of the kubectl and oci executables are installed
    exited,        \* exit status and last message of the process
    cloud_called,  \* TRUE once the run has made a cloud list/get call
    list_calls,    \* the <<ri, ci>> positions whose list call was issued, in order
    main_lists     \* the regions and compartments lists __main__ holds

vars == <<script, workload, rerun, regions, compartments, pc, ri, ci, todo,
          item, item_list, scope_summary, summary_list, totals, workbook,
          kubeconfig_files, tools, exited, cloud_called, list_calls, main_lists>>

----------------------------------------------------------------------------
(* Bounds of the model *)

\* a list call returns at most MaxItems resources
MaxItems == 2
\* the detail sheet holds at most MaxRows data rows (over both invocations)
MaxRows == 2
\* for object storage, whose buckets have no secondary lookups to enumerate:
\* a list_buckets call returns at most MaxBuckets buckets and the detail
\* sheet holds at most MaxBuckets bucket rows
MaxBuckets == 3

----------------------------------------------------------------------------
(* Inputs *)

CV == "CVOracleCloudSizingScript.py"
CS == "oci_cs.py"
Scripts == {CV, CS}

Workloads(s) ==
    IF s = CV THEN {"instances", "object_storage", "db_systems", "oke_clusters"}
              ELSE {"instances", "object_storage"}

\* the <<region list, compartment list>> __main__ passes on: what --region=
\* and --compartment= name, <<>> for an argument that is absent
ScopeLists ==
    { << <<"r1">>, <<>> >>, << <<>>, <<"c1">> >> }

\* what the identity API lists: region subscriptions and compartments
SubscribedRegions == <<"r1", "r2">>
TenancyCompartments == <<"c1", "c2">>

\* variant of resolve: the identity API's list replaces the given one
resolve_AlwaysLists(given, listed) == listed

\* "if not regions: regions = [...]": an empty list is replaced by the
\* identity API's, a non-empty one is kept
resolve(given, listed) == IF given = <<>> THEN listed ELSE given

\* volume, DB storage and PVC sizes the provider reports, in whole GB
SizesGB == {128, 600}
\* approximate_size of a bucket, in MiB (bytes = MiB * 2^20): 0, 1 GiB,
\* 1030 MiB (1.005859375 GiB), 2 GiB, 600 GiB
BucketSizesMiB == {0, 1024, 1030, 2048, 614400}

Lookup(st, gb) == [status |-> st, sizeGB |-> gb]

\* list_boot_volume_attachments / get_boot_volume of one instance
BootOutcomes ==
    {Lookup("list_raises", 0), Lookup("none", 0), Lookup("get_raises", 0)}
        \cup {Lookup("ok", s) : s \in SizesGB}

\* get_volume of one attachment
VolumeOutcomes == {Lookup("raises", 0)} \cup {Lookup("ok", s) : s \in SizesGB}

\* list_volume_attachments of one instance, then get_volume per attachment
BlockOutcomes ==
    {[status |-> "list_raises", vols |-> <<>>], [status |-> "ok", vols |-> <<>>]}
        \cup {[status |-> "ok", vols |-> <<v>>] : v \in VolumeOutcomes}

\* get_bucket(...).data: raises, approximate_size None, or a size
StatsOutcomes ==
    {[status |-> "raises", sizeMiB |-> 0], [status |-> "none", sizeMiB |-> 0]}
        \cup {[status |-> "ok", sizeMiB |-> m] : m \in BucketSizesMiB}

\* kubectl get pvc: the storage request of each PVC in Gi; -1 stands for a
\* quantity that is not "<int>Gi" (int(...) raises on it)
PvcLists == {<<>>, <<600>>, <<128, 600>>, <<-1>>}
\* create-kubeconfig, then kubectl get pvc, then kubectl get nodes
KubeOutcomes ==
    {[kubeconfig |-> "raises", pvc |-> "skipped", pvcs |-> <<>>, nodes |-> -1]}
        \cup {[kubeconfig |-> "ok", pvc |-> "raises", pvcs |-> <<>>, nodes |-> -1]}
        \cup {[kubeconfig |-> "ok", pvc |-> "ok", pvcs |-> p, nodes |-> n] :
                p \in PvcLists, n \in {-1, 2}}

NoBoot == Lookup("none", 0)
NoBlocks == [status |-> "ok", vols |-> <<>>]
NoStats == [status |-> "none", sizeMiB |-> 0]
NoKube == [kubeconfig |-> "raises", pvc |-> "skipped", pvcs |-> <<>>, nodes |-> -1]

Item(k, st, boot, blocks, gb, stats, kube) ==
    [idx |-> k, lifecycle_state |-> st, boot |-> boot, blocks |-> blocks,
     data_storage_size_in_gbs |-> gb, stats |-> stats, kube |-> kube]

\* before the first iteration of an item loop
NoItem == Item(0, "", NoBoot, NoBlocks, 0, NoStats, NoKube)

\* db.data_storage_size_in_gbs: a number of GB, or None (written -1)
DbSizesGB == SizesGB \cup {-1}

\* what the k-th entry of a listing can be, with the outcome of its lookups
Items(w, k) ==
    CASE w = "instances" ->
            {Item(k, "TERMINATED", NoBoot, NoBlocks, 0, NoStats, NoKube)}
            \cup {Item(k, "RUNNING", b, v, 0, NoStats, NoKube) :
                    b \in BootOutcomes, v \in BlockOutcomes}
      [] w = "object_storage" ->
            {Item(k, "", NoBoot, NoBlocks, 0, s, NoKube) : s \in StatsOutcomes}
      [] w = "db_systems" ->
            {Item(k, st, NoBoot, NoBlocks, g, NoStats, NoKube) :
                    st \in {"AVAILABLE", "TERMINATED"}, g \in DbSizesGB}
      [] w = "oke_clusters" ->
            {Item(k, "DELETED", NoBoot, NoBlocks, 0, NoStats, NoKube)}
            \cup {Item(k, "ACTIVE", NoBoot, NoBlocks, 0, NoStats, q) :
                    q \in KubeOutcomes}
      [] OTHER -> {}


----------------------------------------------------------------------------
(* Arithmetic *)

\* variant of RoundHalfEven: ties go up
RoundHalfUp(n, d) == (2 * n + d) \div (2 * d)

\* Python round(n / d) for an exactly representable quotient: to nearest,
\* ties to the even neighbour (n >= 0, d > 0)
RoundHalfEven(n, d) ==
    LET q == n \div d
        r == n % d
    IN  IF 2 * r < d THEN q
        ELSE IF 2 * r > d THEN q + 1
        ELSE IF q % 2 = 0 THEN q ELSE q + 1

\* round(sizeGB / 1024, 2), both in hundredths
ToTB(gb) == RoundHalfEven(gb, 1024)

RECURSIVE SumSizes(_)
\* sum([x["sizeGB"] for x in s])
SumSizes(s) == IF s = <<>> THEN 0 ELSE Head(s).sizeGB + SumSizes(Tail(s))

RECURSIVE SumInts(_)
\* sum([...]) over plain integers
SumInts(s) == IF s = <<>> THEN 0 ELSE Head(s) + SumInts(Tail(s))

IsOk(x) == x.status = "ok"

----------------------------------------------------------------------------
(* Secondary lookups of the instances workload *)

\* CV get_boot_volume_info(...)["sizeGB"]: 0 unless both calls succeed
get_boot_volume_info(boot) == IF boot.status = "ok" THEN boot.sizeGB ELSE 0

\* CV get_block_volume_info: one entry per attachment whose get_volume succeeded
get_block_volume_info(blocks) ==
    IF blocks.status = "ok" THEN SelectSeq(blocks.vols, IsOk) ELSE <<>>

\* variant of get_boot_volume_size: the boot volume's size is left out
get_boot_volume_size_LeftOut(boot) == 0

\* oci_cs get_boot_volume_size
get_boot_volume_size(boot) == IF boot.status = "ok" THEN boot.sizeGB ELSE 0

\* oci_cs get_block_volume_count_and_size: (len(volume_attachments), total_size)
get_block_volume_count_and_size(blocks) ==
    IF blocks.status = "ok" /\ blocks.vols # <<>>
    THEN <<Len(blocks.vols), SumSizes(SelectSeq(blocks.vols, IsOk))>>
    ELSE <<0, 0>>

----------------------------------------------------------------------------
(* Detail records.  One shape for the four *Info classes: sizeGB/sizeTB are *)
(* sizeGB/sizeTB, data_storage_size_gb/_tb or total_pvc_size_gb/_tb.  run,  *)
(* ri, ci record which iteration built the record (not workbook cells).     *)

Detail(run, i, c, region, compartment, it, vols, gb, tb, nodes, pvcs) ==
    [kind |-> "detail", run |-> run, ri |-> i, ci |-> c,
     region |-> region, compartment_id |-> compartment, idx |-> it.idx,
     state |-> it.lifecycle_state, number_of_volumes |-> vols,
     sizeGB |-> gb, sizeTB |-> tb, node_count |-> nodes, pvc_count |-> pvcs]

\* variant of IsTerminal: only the instances workload filters
IsTerminal_InstancesOnly(w, it) ==
    w = "instances" /\ it.lifecycle_state = "TERMINATED"

\* the lifecycle filter at the head of the item loop
IsTerminal(w, it) ==
    CASE w = "instances" -> it.lifecycle_state = "TERMINATED"
      [] w = "db_systems" -> it.lifecycle_state = "TERMINATED"
      [] w = "oke_clusters" -> it.lifecycle_state = "DELETED"
      [] OTHER -> FALSE

\* InstanceInfo of a non-terminated instance
InstanceInfo(s, run, i, c, region, compartment, it) ==
    LET boot == IF s = CV THEN get_boot_volume_info(it.boot)
                          ELSE get_boot_volume_size(it.boot)
        nblk == IF s = CV THEN Len(get_block_volume_info(it.blocks))
                          ELSE get_block_volume_count_and_size(it.blocks)[1]
        blk  == IF s = CV THEN SumSizes(get_block_volume_info(it.blocks))
                          ELSE get_block_volume_count_and_size(it.blocks)[2]
        gb   == 100 * (boot + blk)
    IN  Detail(run, i, c, region, compartment, it,
               (IF boot > 0 THEN 1 ELSE 0) + nblk, gb, ToTB(gb), 0, 0)

\* variant of BucketSizeGB: the size is truncated to whole GB
BucketSizeGB_Truncates(stats) ==
    IF stats.status = "ok" /\ stats.sizeMiB # 0
    THEN 100 * (stats.sizeMiB \div 1024) ELSE 0

\* bucket_info.sizeGB = round(size_in_bytes / 1024**3, 2) if size_in_bytes else 0
BucketSizeGB(stats) ==
    IF stats.status = "ok" /\ stats.sizeMiB # 0
    THEN RoundHalfEven(100 * stats.sizeMiB, 1024) ELSE 0

\* ObjectStorageInfo of a bucket whose get_bucket returned
ObjectStorageInfo(run, i, c, region, compartment, it) ==
    LET gb == BucketSizeGB(it.stats)
    IN  Detail(run, i, c, region, compartment, it, 0,
               gb, IF gb # 0 THEN ToTB(gb) ELSE 0, 0, 0)

\* DBSystemInfo of a non-terminated DB system
DBSystemInfo(run, i, c, region, compartment, it) ==
    LET gb == 100 * it.data_storage_size_in_gbs
    IN  Detail(run, i, c, region, compartment, it, 0, gb, ToTB(gb), 0, 0)

\* int(storage.replace("Gi", "")) raises on some PVC
PvcParseRaises(pvcs) == \E k \in 1..Len(pvcs) : pvcs[k] < 0

\* OKEClusterInfo of a non-deleted cluster, after the try/except/finally
OKEClusterInfo(run, i, c, region, it) ==
    LET q == it.kube
        reached == q.kubeconfig = "ok" /\ q.pvc = "ok"
        sized == reached /\ ~PvcParseRaises(q.pvcs)
        gb == IF sized THEN 100 * SumInts(q.pvcs) ELSE 0
    IN  Detail(run, i, c, region, "", it, 0,
               gb, IF sized THEN ToTB(gb) ELSE 0,
               IF sized /\ q.nodes >= 0 THEN q.nodes ELSE 0,
               IF reached THEN Len(q.pvcs) ELSE 0)

----------------------------------------------------------------------------
(* Summaries and running totals *)

\* a fresh *Summary object (count and sums 0)
Summary(run, i, c, region, compartment) ==
    [kind |-> "summary", run |-> run, ri |-> i, ci |-> c,
     region |-> region, compartment_id |-> compartment,
     count |-> 0, total_sizeGB |-> 0, total_sizeTB |-> 0,
     total_node_count |-> 0, total_pvc_count |-> 0]

\* variant of AddToSummary: a record of size 0 is not counted
AddToSummary_SkipsEmpty(sm, d) ==
    [sm EXCEPT !.count = @ + (IF d.sizeGB > 0 THEN 1 ELSE 0),
               !.total_sizeGB = @ + d.sizeGB,
               !.total_sizeTB = @ + d.sizeTB,
               !.total_node_count = @ + d.node_count,
               !.total_pvc_count = @ + d.pvc_count]

\* the "+=" lines on region_summary / compartment_summary for one record
AddToSummary(sm, d) ==
    [sm EXCEPT !.count = @ + 1,
               !.total_sizeGB = @ + d.sizeGB,
               !.total_sizeTB = @ + d.sizeTB,
               !.total_node_count = @ + d.node_count,
               !.total_pvc_count = @ + d.pvc_count]

\* the module-level counters at import
ZeroTotals ==
    [count |-> 0, sizeGB |-> 0, sizeTB |-> 0, node_count |-> 0, pvc_count |-> 0]

\* variant of AddToTotals: the TB counter is recomputed from the GB counter
AddToTotals_RederivesTB(t, d) ==
    [t EXCEPT !.count = @ + 1,
              !.sizeGB = @ + d.sizeGB,
              !.sizeTB = ToTB(t.sizeGB + d.sizeGB),
              !.node_count = @ + d.node_count,
              !.pvc_count = @ + d.pvc_count]

\* variant of AddToTotals: the record is counted and sized twice
AddToTotals_Twice(t, d) ==
    [t EXCEPT !.count = @ + 2,
              !.sizeGB = @ + 2 * d.sizeGB,
              !.sizeTB = @ + 2 * d.sizeTB,
              !.node_count = @ + 2 * d.node_count,
              !.pvc_count = @ + 2 * d.pvc_count]

\* the "+=" lines on the global total_* counters for one record
AddToTotals(t, d) ==
    [t EXCEPT !.count = @ + 1,
              !.sizeGB = @ + d.sizeGB,
              !.sizeTB = @ + d.sizeTB,
              !.node_count = @ + d.node_count,
              !.pvc_count = @ + d.pvc_count]

----------------------------------------------------------------------------
(* The workbook: the detail ("info") sheet and the summary sheet, each a   *)
(* sequence of rows with the header as row 1, the rows whose font is bold, *)
(* and whether format_workbook styled the headers and set the widths.      *)

\* get_sheet_info: the summary sheet's header cells (no sheet is made for
\* a workload the script does not support)
summary_headers(s, w) ==
    CASE s = CV /\ w = "instances" ->
            <<"Region", "Instance Count", "Total Size (GB)", "Total Size (TB)">>
      [] s = CV /\ w = "object_storage" ->
            <<"Region", "Bucket Count", "Total Size (GB)", "Total Size (TB)">>
      [] s = CV /\ w = "db_systems" ->
            <<"Region", "DB System Count", "Total Storage (GB)",
              "Total Storage (TB)">>
      [] s = CV /\ w = "oke_clusters" ->
            <<"Region", "Cluster Count", "Total Node Count", "Total PVC Count",
              "Total PVC Size (GB)", "Total PVC Size (TB)">>
      [] s = CS /\ w = "instances" ->
            <<"Region", "Compartment ID", "Instance Count", "Total Size (GB)",
              "Total Size (TB)">>
      [] s = CS /\ w = "object_storage" ->
            <<"Namespace", "Region", "Compartment ID", "Bucket Count",
              "Total Size (GB)", "Total Size (TB)">>
      [] OTHER -> <<>>

\* dump_summary: which field of the summary goes into each cell of its row
SummaryCells(s, w) ==
    CASE s = CV /\ w = "oke_clusters" ->
            <<"region", "count", "total_node_count", "total_pvc_count",
              "total_sizeGB", "total_sizeTB">>
      [] s = CV /\ w # "oke_clusters" ->
            <<"region", "count", "total_sizeGB", "total_sizeTB">>
      [] s = CS /\ w = "object_storage" ->
            <<"namespace", "region", "compartment_id", "count",
              "total_sizeGB", "total_sizeTB">>
      [] OTHER ->
            <<"region", "compartment_id", "count", "total_sizeGB",
              "total_sizeTB">>

\* write_grand_total: which counter goes into each cell of the row; the
\* first cell is a label, oci_cs adds an empty string as second cell
GrandTotalCells(s, w) ==
    CASE s = CV /\ w = "oke_clusters" ->
            <<"label", "count", "total_node_count", "total_pvc_count",
              "total_sizeGB", "total_sizeTB">>
      [] s = CV /\ w # "oke_clusters" ->
            <<"label", "count", "total_sizeGB", "total_sizeTB">>
      [] OTHER ->
            <<"label", "", "count", "total_sizeGB", "total_sizeTB">>

NoWorkbook ==
    [exists |-> FALSE, info |-> <<>>, summary |-> <<>>, summary_cells |-> <<>>,
     info_bold |-> {}, summary_bold |-> {}, formatted |-> FALSE]

InfoHeader ==
    [kind |-> "header", run |-> 0, ri |-> 0, ci |-> 0,
     region |-> "", compartment_id |-> "", idx |-> 0, state |-> "",
     number_of_volumes |-> 0, sizeGB |-> 0, sizeTB |-> 0,
     node_count |-> 0, pvc_count |-> 0]

SummaryHeader ==
    [kind |-> "header", run |-> 0, ri |-> 0, ci |-> 0,
     region |-> "", compartment_id |-> "",
     count |-> 0, total_sizeGB |-> 0, total_sizeTB |-> 0,
     total_node_count |-> 0, total_pvc_count |-> 0]

\* variant of init_excel: the workbook is created whether or not it exists
init_excel_AlwaysCreates(wb) ==
    [exists |-> TRUE, info |-> <<InfoHeader>>, summary |-> <<SummaryHeader>>,
     summary_cells |-> <<summary_headers(script, workload)>>,
     info_bold |-> {}, summary_bold |-> {}, formatted |-> FALSE]

\* init_excel: create the file with the two header rows unless it exists
init_excel(wb) ==
    IF ~wb.exists
    THEN [exists |-> TRUE, info |-> <<InfoHeader>>, summary |-> <<SummaryHeader>>,
          summary_cells |-> <<summary_headers(script, workload)>>,
          info_bold |-> {}, summary_bold |-> {}, formatted |-> FALSE]
    ELSE wb

\* variant of dump_info: the first record of the list is not written
dump_info_DropsFirst(wb, object_list) ==
    [wb EXCEPT !.info = IF object_list = <<>> THEN @ ELSE @ \o Tail(object_list)]

\* dump_info: append one row per object of object_list to the info sheet
dump_info(wb, object_list) == [wb EXCEPT !.info = @ \o object_list]

\* dump_summary: CV appends one row per summary of the list; oci_cs is
\* called with one summary and appends its row
dump_summary(wb, summaries) ==
    [wb EXCEPT !.summary = @ \o summaries,
               !.summary_cells =
                   @ \o [k \in DOMAIN summaries |-> SummaryCells(script, workload)]]

\* the row write_grand_total builds from the global counters
GrandTotalRow(run, t) ==
    [kind |-> "total", run |-> run, ri |-> 0, ci |-> 0,
     region |-> "", compartment_id |-> "",
     count |-> t.count, total_sizeGB |-> t.sizeGB, total_sizeTB |-> t.sizeTB,
     total_node_count |-> t.node_count, total_pvc_count |-> t.pvc_count]

\* write_grand_total: append the row; CV then sets the font of sheet[2] bold
write_grand_total(s, wb, run, t) ==
    LET appended == [wb EXCEPT !.summary = Append(@, GrandTotalRow(run, t)),
                               !.summary_cells =
                                   Append(@, GrandTotalCells(s, workload))]
    IN  IF s = CV THEN [appended EXCEPT !.summary_bold = @ \cup {2}]
                  ELSE appended

\* format_workbook: header row of every sheet bold and filled, widths set
format_workbook(wb) ==
    [wb EXCEPT !.info_bold = @ \cup {1}, !.summary_bold = @ \cup {1},
               !.formatted = TRUE]

----------------------------------------------------------------------------
(* The run *)

\* the value of --workload=: a supported workload, one the script does not
\* know, or no such argument at all
WorkloadArgs(s) == Workloads(s) \cup {"vmware", "<absent>"}

\* the executables shutil.which finds; oci_cs.py looks for none
ToolSets(s) ==
    IF s = CV THEN {{"kubectl", "oci"}, {"oci"}, {"kubectl"}, {}}
    ELSE {{"kubectl", "oci"}}

\* sys.exit(status) after the message, or an uncaught exception (status 1)
Exit(status, message) == [status |-> status, message |-> message]

\* the process is running
NoExit == Exit(-1, "")

RunNo == IF rerun THEN 2 ELSE 1
Region == regions[ri]
Compartment == compartments[ci]
DataRows(wb) == IF wb.exists THEN Len(wb.info) - 1 ELSE 0

\* the state when __main__ starts, its two lists being one pair of lists
Start(lists) ==
    /\ script \in Scripts
    /\ workload \in WorkloadArgs(script)
    /\ rerun = FALSE
    /\ \E sl \in lists :
         main_lists = [regions |-> sl[1], compartments |-> sl[2]]
    /\ regions = <<>>
    /\ compartments = <<>>
    /\ pc = "main"
    /\ ri = 1
    /\ ci = 1
    /\ todo = 0
    /\ item = NoItem
    /\ item_list = <<>>
    /\ scope_summary = Summary(0, 0, 0, "", "")
    /\ summary_list = <<>>
    /\ totals = ZeroTotals
    /\ workbook = NoWorkbook
    /\ kubeconfig_files = {}
    /\ tools \in ToolSets(script)
    /\ exited = NoExit
    /\ cloud_called = FALSE
    /\ list_calls = <<>>

Init == Start(ScopeLists)

\* one region and one compartment, both given
InitOneScope == Start({ << <<"r1">>, <<"c1">> >> })

\* --region= or --compartment= naming the same entry twice
RepeatedLists ==
    { << <<"r1", "r1">>, <<"c1">> >>, << <<"r1">>, <<"c1", "c1">> >> }

InitRepeated == Start(RepeatedLists)

\* variant of ToolsFound: only the oci CLI is looked for
ToolsFound_OciOnly == script = CV => "oci" \in tools

\* CV: both executables were found by shutil.which
ToolsFound == script = CV => tools = {"kubectl", "oci"}

\* CV: kubectl or the oci CLI is not installed: logging.error, sys.exit(1)
ToolMissing ==
    /\ pc = "main"
    /\ ~ToolsFound
    /\ exited' = Exit(1, IF "kubectl" \notin tools
                         THEN "Error: 'kubectl' command not found."
                         ELSE "Error: 'oci' CLI not found.")
    /\ pc' = "exited"
    /\ UNCHANGED <<script, workload, rerun, regions, compartments, ri, ci, todo,
                   item, item_list, scope_summary, summary_list, totals,
                   workbook, kubeconfig_files, tools, cloud_called, list_calls, main_lists>>

\* no --workload= argument: print, sys.exit(1)
WorkloadMissing ==
    /\ pc = "main"
    /\ ToolsFound
    /\ workload = "<absent>"
    /\ exited' = Exit(1, "Error: --workload is required.")
    /\ pc' = "exited"
    /\ UNCHANGED <<script, workload, rerun, regions, compartments, ri, ci, todo,
                   item, item_list, scope_summary, summary_list, totals,
                   workbook, kubeconfig_files, tools, cloud_called, list_calls, main_lists>>

\* the else branch of the dispatch: print, sys.exit(1)
WorkloadUnsupported ==
    /\ pc = "main"
    /\ ToolsFound
    /\ workload \notin Workloads(script) \cup {"<absent>"}
    /\ exited' = Exit(1, "Workload is not supported yet.")
    /\ pc' = "exited"
    /\ UNCHANGED <<script, workload, rerun, regions, compartments, ri, ci, todo,
                   item, item_list, scope_summary, summary_list, totals,
                   workbook, kubeconfig_files, tools, cloud_called, list_calls, main_lists>>

\* the arguments are accepted and the dispatch selects the workload's branch
Dispatch ==
    /\ pc = "main"
    /\ ToolsFound
    /\ workload \in Workloads(script)
    /\ pc' = "init_excel"
    /\ UNCHANGED <<script, workload, rerun, regions, compartments, ri, ci, todo,
                   item, item_list, scope_summary, summary_list, totals,
                   workbook, kubeconfig_files, tools, exited, cloud_called, list_calls, main_lists>>

\* __main__: init_excel(filename, workload), then the workload's function
InitExcel ==
    /\ pc = "init_excel"
    /\ workbook' = init_excel(workbook)
    /\ pc' = "resolve"
    /\ UNCHANGED <<tools, exited, cloud_called, list_calls, main_lists,
                   kubeconfig_files, script, workload, rerun, regions, compartments, ri, ci, todo,
                   item, item_list, scope_summary, summary_list, totals>>

\* head of the workload's function: the lists it is given are kept or
\* replaced by those of the identity API
ResolveTargets ==
    /\ pc = "resolve"
    /\ regions' = resolve(main_lists.regions, SubscribedRegions)
    /\ compartments' = resolve(main_lists.compartments, TenancyCompartments)
    /\ cloud_called' = (cloud_called \/ main_lists.regions = <<>>
                                     \/ main_lists.compartments = <<>>)
    /\ pc' = "region"
    /\ UNCHANGED <<tools, exited, list_calls, main_lists,
                   kubeconfig_files, script, workload, rerun, ri, ci, todo,
                   item, item_list, scope_summary, summary_list, totals,
                   workbook>>

\* head of "for region in regions": the region's client and, in CV, its
\* region_summary; get_namespace succeeded if the workload calls it
BeginRegion ==
    /\ pc = "region"
    /\ ri <= Len(regions)
    /\ scope_summary' =
         IF script = CV
         THEN Summary(RunNo, ri, 0,
                      IF workload = "instances" THEN "" ELSE Region, "")
         ELSE scope_summary
    /\ ci' = 1
    /\ pc' = "compartment"
    /\ UNCHANGED <<tools, exited, cloud_called, list_calls, main_lists,
                   kubeconfig_files, script, workload, rerun, regions, compartments, ri, todo,
                   item, item_list, summary_list, totals, workbook>>

\* object storage: get_namespace raises, the region is skipped ("continue")
NamespaceRaises ==
    /\ pc = "region"
    /\ ri <= Len(regions)
    /\ workload = "object_storage"
    /\ scope_summary' =
         IF script = CV THEN Summary(RunNo, ri, 0, Region, "") ELSE scope_summary
    /\ ri' = ri + 1
    /\ cloud_called' = TRUE
    /\ list_calls' = list_calls
    /\ UNCHANGED <<tools, main_lists, exited,
                   kubeconfig_files, script, workload, rerun, regions, compartments, pc, ci, todo,
                   item, item_list, summary_list, totals, workbook>>

\* what the head of "for compartment in compartments" assigns before the
\* list call
CompartmentHead ==
    IF script = CS THEN Summary(RunNo, ri, ci, Region, Compartment)
    ELSE IF workload = "instances" THEN [scope_summary EXCEPT !.region = Region]
    ELSE scope_summary

\* the list call raises: uncaught for instances, "continue" for the others
ListRaises ==
    /\ pc = "compartment"
    /\ ci <= Len(compartments)
    /\ scope_summary' = CompartmentHead
    /\ item_list' = IF workload = "oke_clusters" THEN item_list ELSE <<>>
    /\ IF workload = "instances"
       THEN pc' = "crashed" /\ ci' = ci
       ELSE pc' = pc /\ ci' = ci + 1
    /\ cloud_called' = TRUE
    /\ list_calls' = Append(list_calls, <<ri, ci>>)
    /\ exited' = IF workload = "instances" THEN Exit(1, "Traceback") ELSE exited
    /\ UNCHANGED <<tools, main_lists,
                   kubeconfig_files, script, workload, rerun, regions, compartments, ri, todo,
                   item, summary_list, totals, workbook>>

\* the list call returns no resource: "continue" (OKE has no such test and
\* runs its empty item loop and dump_info)
ListEmpty ==
    /\ pc = "compartment"
    /\ ci <= Len(compartments)
    /\ scope_summary' = CompartmentHead
    /\ item_list' = <<>>
    /\ todo' = 0
    /\ item' = NoItem
    /\ IF workload = "oke_clusters"
       THEN pc' = "items" /\ ci' = ci
       ELSE pc' = pc /\ ci' = ci + 1
    /\ cloud_called' = TRUE
    /\ list_calls' = Append(list_calls, <<ri, ci>>)
    /\ UNCHANGED <<tools, main_lists, exited,
                   kubeconfig_files, script, workload, rerun, regions, compartments, ri,
                   summary_list, totals, workbook>>

\* the bounds that apply to a workload's listings and detail rows
MaxListing(w) == IF w = "object_storage" THEN MaxBuckets ELSE MaxItems
MaxDataRows(w) == IF w = "object_storage" THEN MaxBuckets ELSE MaxRows

\* the list call returns n resources
ListReturns ==
    /\ pc = "compartment"
    /\ ci <= Len(compartments)
    /\ \E n \in 1..MaxListing(workload) :
         /\ DataRows(workbook) + n <= MaxDataRows(workload)
         /\ todo' = n
    /\ scope_summary' = CompartmentHead
    /\ item_list' = <<>>
    /\ item' = NoItem
    /\ pc' = "items"
    /\ cloud_called' = TRUE
    /\ list_calls' = Append(list_calls, <<ri, ci>>)
    /\ UNCHANGED <<tools, main_lists, exited,
                   kubeconfig_files, script, workload, rerun, regions, compartments, ri, ci,
                   summary_list, totals, workbook>>

\* the detail record the item loop builds for a resource it does not skip
BuildInfo(it) ==
    CASE workload = "instances" ->
            InstanceInfo(script, RunNo, ri, ci, Region, Compartment, it)
      [] workload = "object_storage" ->
            ObjectStorageInfo(RunNo, ri, ci, Region, Compartment, it)
      [] workload = "db_systems" ->
            DBSystemInfo(RunNo, ri, ci, Region, Compartment, it)
      [] workload = "oke_clusters" ->
            OKEClusterInfo(RunNo, ri, ci, Region, it)

\* variant of LookupRaises: a boot volume lookup that raises also reaches
\* the item loop
LookupRaises_BootEscapes(w, it) ==
    \/ w = "object_storage" /\ it.stats.status = "raises"
    \/ w = "instances" /\ it.boot.status = "get_raises"

\* an exception reaches the item loop's own except branch ("continue"):
\* get_bucket raising; the volume lookups of an instance catch their own
LookupRaises(w, it) == w = "object_storage" /\ it.stats.status = "raises"

\* building the record raises outside any try: round(None / 1024, 2) for a
\* DB system whose data_storage_size_in_gbs is None
RecordRaises(w, it) == w = "db_systems" /\ it.data_storage_size_in_gbs < 0

\* the next resource of the listing becomes the loop variable
Fetch(it) ==
    /\ pc = "items"
    /\ todo > 0
    /\ it \in Items(workload, item.idx + 1)
    /\ item' = it
    /\ todo' = todo - 1

\* one iteration that ends in "continue" at the lifecycle filter
SkipTerminated ==
    /\ \E it \in Items(workload, item.idx + 1) :
         /\ Fetch(it)
         /\ IsTerminal(workload, it)
    /\ UNCHANGED <<tools, exited, cloud_called, list_calls, main_lists,
                   kubeconfig_files, script, workload, rerun, regions, compartments, pc, ri, ci,
                   item_list, scope_summary, summary_list, totals, workbook>>

\* one iteration that ends in "continue" because get_bucket raised
SkipBucket ==
    /\ \E it \in Items(workload, item.idx + 1) :
         /\ Fetch(it)
         /\ ~IsTerminal(workload, it)
         /\ LookupRaises(workload, it)
    /\ UNCHANGED <<tools, exited, cloud_called, list_calls, main_lists,
                   kubeconfig_files, script, workload, rerun, regions, compartments, pc, ri, ci,
                   item_list, scope_summary, summary_list, totals, workbook>>

\* one full iteration: build the record, add it to the scope summary, to the
\* compartment's list and to the global counters
ProcessItem ==
    /\ workload # "oke_clusters"
    /\ \E it \in Items(workload, item.idx + 1) :
         /\ Fetch(it)
         /\ ~IsTerminal(workload, it)
         /\ ~LookupRaises(workload, it)
         /\ ~RecordRaises(workload, it)
         /\ scope_summary' = AddToSummary(scope_summary, BuildInfo(it))
         /\ item_list' = Append(item_list, BuildInfo(it))
         /\ totals' = AddToTotals(totals, BuildInfo(it))
    /\ UNCHANGED <<tools, exited, cloud_called, list_calls, main_lists,
                   kubeconfig_files, script, workload, rerun, regions, compartments, pc, ri, ci,
                   summary_list, workbook>>

\* kubeconfig_file of a cluster: one name per cluster id
KubeconfigFile(it) == <<ri, ci, it.idx>>

\* variant of os_remove: the file stays
os_remove_Keeps(files, f) == files

\* os.remove(kubeconfig_file) in the finally branch; the OSError of a
\* missing file is passed
os_remove(files, f) == files \ {f}

\* variant of AfterCreate: the PVC query runs whatever create-kubeconfig did
AfterCreate_AlwaysQueries(kube) == "get_pvc"

\* where control goes after create-kubeconfig: on to the PVC query, or to
\* the except and finally branches when it raised
AfterCreate(kube) == IF kube.kubeconfig = "ok" THEN "get_pvc" ELSE "finally"

\* variant of AfterPvc: the node query runs whatever the PVC query did
AfterPvc_AlwaysQueries(kube) == "get_nodes"

\* where control goes after the PVC query and the parsing of its output: on
\* to the node query, or to the except and finally branches
AfterPvc(kube) ==
    IF kube.pvc = "ok" /\ ~PvcParseRaises(kube.pvcs) THEN "get_nodes"
    ELSE "finally"

\* OKE: a cluster that is not DELETED becomes the loop variable and
\* "oci ce cluster create-kubeconfig" runs; when it succeeds the file exists,
\* when it fails the file may or may not have been written
CreateKubeconfig ==
    /\ workload = "oke_clusters"
    /\ \E it \in Items(workload, item.idx + 1) :
         /\ Fetch(it)
         /\ ~IsTerminal(workload, it)
         /\ \E written \in (IF it.kube.kubeconfig = "ok" THEN {TRUE}
                                                         ELSE {TRUE, FALSE}) :
              kubeconfig_files' =
                  IF written THEN kubeconfig_files \cup {KubeconfigFile(it)}
                  ELSE kubeconfig_files
         /\ pc' = AfterCreate(it.kube)
    /\ UNCHANGED <<tools, exited, cloud_called, list_calls, main_lists,
                   script, workload, rerun, regions, compartments, ri, ci,
                   item_list, scope_summary, summary_list, totals, workbook>>

\* OKE: "kubectl get pvc -A -o json" runs and its output is parsed and
\* summed; any exception leaves the try body
GetPvc ==
    /\ pc = "get_pvc"
    /\ pc' = AfterPvc(item.kube)
    /\ UNCHANGED <<tools, exited, cloud_called, list_calls, main_lists, kubeconfig_files,
                   script, workload, rerun, regions, compartments, ri, ci, todo,
                   item, item_list, scope_summary, summary_list, totals,
                   workbook>>

\* OKE: "kubectl get nodes -o json" runs inside its own try
GetNodes ==
    /\ pc = "get_nodes"
    /\ pc' = "finally"
    /\ UNCHANGED <<tools, exited, cloud_called, list_calls, main_lists, kubeconfig_files,
                   script, workload, rerun, regions, compartments, ri, ci, todo,
                   item, item_list, scope_summary, summary_list, totals,
                   workbook>>

\* OKE: the finally branch removes the kubeconfig file
RemoveKubeconfig ==
    /\ pc = "finally"
    /\ kubeconfig_files' = os_remove(kubeconfig_files, KubeconfigFile(item))
    /\ pc' = "aggregate"
    /\ UNCHANGED <<tools, exited, cloud_called, list_calls, main_lists,
                   script, workload, rerun, regions, compartments, ri, ci, todo,
                   item, item_list, scope_summary, summary_list, totals,
                   workbook>>

\* OKE: the cluster is added to the region summary, the global counters and
\* the compartment's list
AggregateCluster ==
    /\ pc = "aggregate"
    /\ scope_summary' = AddToSummary(scope_summary, BuildInfo(item))
    /\ item_list' = Append(item_list, BuildInfo(item))
    /\ totals' = AddToTotals(totals, BuildInfo(item))
    /\ pc' = "items"
    /\ UNCHANGED <<tools, exited, cloud_called, list_calls, main_lists,
                   kubeconfig_files, script, workload, rerun, regions,
                   compartments, ri, ci, todo, item, summary_list, workbook>>

\* one iteration that ends the run with an uncaught exception
ItemCrashes ==
    /\ \E it \in Items(workload, item.idx + 1) :
         /\ Fetch(it)
         /\ ~IsTerminal(workload, it)
         /\ RecordRaises(workload, it)
    /\ pc' = "crashed"
    /\ exited' = Exit(1, "Traceback")
    /\ UNCHANGED <<tools, cloud_called, list_calls, main_lists,
                   kubeconfig_files, script, workload, rerun, regions, compartments, ri, ci,
                   item_list, scope_summary, summary_list, totals, workbook>>

\* after the item loop: dump_info, and in oci_cs the compartment's summary
\* is appended to the list and written by dump_summary
EndItems ==
    /\ pc = "items"
    /\ todo = 0
    /\ summary_list' =
         IF script = CS THEN Append(summary_list, scope_summary) ELSE summary_list
    /\ workbook' =
         IF script = CS
         THEN dump_summary(dump_info(workbook, item_list), <<scope_summary>>)
         ELSE dump_info(workbook, item_list)
    /\ item' = NoItem
    /\ ci' = ci + 1
    /\ pc' = "compartment"
    /\ UNCHANGED <<tools, exited, cloud_called, list_calls, main_lists,
                   kubeconfig_files, script, workload, rerun, regions, compartments, ri, todo,
                   item_list, scope_summary, totals>>

\* the compartment loop is exhausted: CV appends region_summary to the list
EndRegion ==
    /\ pc = "compartment"
    /\ ci > Len(compartments)
    /\ summary_list' =
         IF script = CV THEN Append(summary_list, scope_summary) ELSE summary_list
    /\ ri' = ri + 1
    /\ pc' = "region"
    /\ UNCHANGED <<tools, exited, cloud_called, list_calls, main_lists,
                   kubeconfig_files, script, workload, rerun, regions, compartments, ci, todo,
                   item, item_list, scope_summary, totals, workbook>>

\* the region loop is exhausted
EndRegions ==
    /\ pc = "region"
    /\ ri > Len(regions)
    /\ pc' = "write_grand_total"
    /\ UNCHANGED <<tools, exited, cloud_called, list_calls, main_lists,
                   kubeconfig_files, script, workload, rerun, regions, compartments, ri, ci, todo,
                   item, item_list, scope_summary, summary_list, totals, workbook>>

\* variant of AfterGrandTotal: no script writes summaries after the total
AfterGrandTotal_NoDump(s) == "format_workbook"

\* what follows write_grand_total: dump_summary in CV, format_workbook in oci_cs
AfterGrandTotal(s) == IF s = CV THEN "dump_summary" ELSE "format_workbook"

\* write_grand_total(filename, workload)
WriteGrandTotal ==
    /\ pc = "write_grand_total"
    /\ workbook' = write_grand_total(script, workbook, RunNo, totals)
    /\ pc' = AfterGrandTotal(script)
    /\ UNCHANGED <<tools, exited, cloud_called, list_calls, main_lists,
                   kubeconfig_files, script, workload, rerun, regions, compartments, ri, ci, todo,
                   item, item_list, scope_summary, summary_list, totals>>

\* CV only: dump_summary(filename, workload, *_summary_list)
DumpSummary ==
    /\ pc = "dump_summary"
    /\ workbook' = dump_summary(workbook, summary_list)
    /\ pc' = "format_workbook"
    /\ UNCHANGED <<tools, exited, cloud_called, list_calls, main_lists,
                   kubeconfig_files, script, workload, rerun, regions, compartments, ri, ci, todo,
                   item, item_list, scope_summary, summary_list, totals>>

\* format_workbook(filename)
FormatWorkbook ==
    /\ pc = "format_workbook"
    /\ workbook' = format_workbook(workbook)
    /\ pc' = "done"
    /\ exited' = Exit(0, "")
    /\ UNCHANGED <<tools, cloud_called, list_calls, main_lists,
                   kubeconfig_files, script, workload, rerun, regions, compartments, ri, ci, todo,
                   item, item_list, scope_summary, summary_list, totals>>

\* the script is invoked again with the same profile, workload and
\* arguments within the same second: the same file name, a new process
Reinvoke ==
    /\ pc \in {"done", "crashed"}
    /\ ~rerun
    /\ rerun' = TRUE
    /\ pc' = "main"
    /\ ri' = 1
    /\ ci' = 1
    /\ todo' = 0
    /\ item' = NoItem
    /\ item_list' = <<>>
    /\ scope_summary' = Summary(0, 0, 0, "", "")
    /\ summary_list' = <<>>
    /\ totals' = ZeroTotals
    /\ cloud_called' = FALSE
    /\ list_calls' = <<>>
    /\ regions' = <<>>
    /\ compartments' = <<>>
    /\ exited' = NoExit
    /\ UNCHANGED <<tools, main_lists,
                   kubeconfig_files, script, workload, workbook>>

\* one invocation
Step ==
    \/ ToolMissing
    \/ WorkloadMissing
    \/ WorkloadUnsupported
    \/ Dispatch
    \/ InitExcel
    \/ ResolveTargets
    \/ BeginRegion
    \/ NamespaceRaises
    \/ ListRaises
    \/ ListEmpty
    \/ ListReturns
    \/ SkipTerminated
    \/ SkipBucket
    \/ ProcessItem
    \/ ItemCrashes
    \/ CreateKubeconfig
    \/ GetPvc
    \/ GetNodes
    \/ RemoveKubeconfig
    \/ AggregateCluster
    \/ EndItems
    \/ EndRegion
    \/ EndRegions
    \/ WriteGrandTotal
    \/ DumpSummary
    \/ FormatWorkbook

\* an invocation, possibly followed by a second one on the same file
Next ==
    \/ Step
    \/ Reinvoke

\* a single invocation into a fresh workbook
Spec == Init /\ [][Step]_vars

\* an invocation and a re-invocation on its workbook, over one scope
SpecReinvoke == InitOneScope /\ [][Next]_vars

\* a single invocation that keeps executing while it has a statement to run
FairSpec == Spec /\ WF_vars(Step)

\* one invocation whose region or compartment list repeats an entry
SpecRepeated == InitRepeated /\ [][Step]_vars

----------------------------------------------------------------------------
(* Helpers of the properties *)

Abs(x) == IF x < 0 THEN -x ELSE x

RECURSIVE SumGB(_)
SumGB(rows) == IF rows = <<>> THEN 0 ELSE Head(rows).sizeGB + SumGB(Tail(rows))

IsDetail(r) == r.kind = "detail"
IsSummary(r) == r.kind = "summary"

\* the data rows of the detail sheet a summary row stands for
InScope(d, sm) ==
    /\ d.kind = "detail"
    /\ d.run = sm.run
    /\ d.region = sm.region
    /\ script = CS => d.compartment_id = sm.compartment_id

DetailsOf(sm) ==
    LET rows == workbook.info
        keep == {k \in DOMAIN rows : InScope(rows[k], sm)}
        RECURSIVE Pick(_)
        Pick(k) == IF k > Len(rows) THEN <<>>
                   ELSE IF k \in keep THEN <<rows[k]>> \o Pick(k + 1)
                   ELSE Pick(k + 1)
    IN  Pick(1)

\* indices of this invocation's rows of the summary sheet
RunSummaries == {k \in DOMAIN workbook.summary :
                    workbook.summary[k].kind = "summary"
                    /\ workbook.summary[k].run = RunNo}
RunTotals == {k \in DOMAIN workbook.summary :
                    workbook.summary[k].kind = "total"
                    /\ workbook.summary[k].run = RunNo}

RECURSIVE SumOver(_, _, _)
\* sum of F(row k) over the set ks of row indices of the summary sheet
SumOver(ks, F(_), rows) ==
    IF ks = {} THEN 0
    ELSE LET k == CHOOSE x \in ks : TRUE
         IN  F(rows[k]) + SumOver(ks \ {k}, F, rows)

FCount(r) == r.count
FGB(r) == r.total_sizeGB
FTB(r) == r.total_sizeTB
FNodes(r) == r.total_node_count
FPvcs(r) == r.total_pvc_count

----------------------------------------------------------------------------
(* C1 *)

\* C1: every scope summary row of the summary sheet has a count equal to
\* the number of detail rows written for its scope (region in CV, region and
\* compartment in oci_cs) and a GB total equal to the sum of their GB fields.
C1_SummaryMatchesDetails ==
    \A k \in DOMAIN workbook.summary :
        LET sm == workbook.summary[k]
        IN  sm.kind = "summary" =>
               /\ sm.count = Len(DetailsOf(sm))
               /\ sm.total_sizeGB = SumGB(DetailsOf(sm))

\* a region summary of CV that adds up two non-empty detail rows of two
\* compartments
C1_Witness ==
    /\ script = CV
    /\ pc = "done"
    /\ \E k \in DOMAIN workbook.summary :
          /\ workbook.summary[k].kind = "summary"
          /\ workbook.summary[k].count = 2
          /\ workbook.summary[k].total_sizeGB = 72800
    /\ Len(workbook.info) = 3
    /\ workbook.info[2].compartment_id # workbook.info[3].compartment_id

----------------------------------------------------------------------------
(* C2 *)

\* C2: after a full run the grand total row's count, GB, TB, node count and
\* PVC count each equal the sum of that field over the scope summary rows the
\* run wrote, also when regions or compartments were skipped.
C2_GrandTotalIsSumOfSummaries ==
    pc = "done" =>
        /\ Cardinality(RunTotals) = 1
        /\ \A t \in RunTotals :
              LET rows == workbook.summary
                  gt == rows[t]
              IN  /\ gt.count = SumOver(RunSummaries, FCount, rows)
                  /\ gt.total_sizeGB = SumOver(RunSummaries, FGB, rows)
                  /\ gt.total_sizeTB = SumOver(RunSummaries, FTB, rows)
                  /\ gt.total_node_count = SumOver(RunSummaries, FNodes, rows)
                  /\ gt.total_pvc_count = SumOver(RunSummaries, FPvcs, rows)

\* a finished OKE run over two regions, one cluster with nodes and PVCs in
\* each, whose total adds the two region summaries
C2_Witness ==
    /\ pc = "done"
    /\ workload = "oke_clusters"
    /\ Cardinality(RunSummaries) = 2
    /\ \A k \in RunSummaries :
          /\ workbook.summary[k].count = 1
          /\ workbook.summary[k].total_sizeGB = 60000
          /\ workbook.summary[k].total_node_count = 2
    /\ \E t \in RunTotals :
          /\ workbook.summary[t].count = 2
          /\ workbook.summary[t].total_sizeTB = 118
          /\ workbook.summary[t].total_node_count = 4

----------------------------------------------------------------------------
(* C3 *)

\* C3: in every scope summary row and in the grand total row the TB total
\* is round(GB total of the row / 1024, 2), that is, within half a hundredth
\* of GB/1024 (two records of 600 GB: 1.17, not 0.59 + 0.59 = 1.18).
C3_SummaryTBFromRowGB ==
    \A k \in DOMAIN workbook.summary :
        LET r == workbook.summary[k]
        IN  r.kind \in {"summary", "total"} =>
               2 * Abs(r.total_sizeGB - 1024 * r.total_sizeTB) <= 1024

----------------------------------------------------------------------------
(* C4 *)

RowsBuilt == {item_list[k] : k \in DOMAIN item_list}
                \cup {workbook.info[k] : k \in DOMAIN workbook.info}

\* C4 as amended: the TB field of every detail record is the hundredth
\* nearest to GB/1024, and when GB/1024 is exactly halfway between two
\* hundredths it is the even one (128 GB gives 0.12, 384 GB gives 0.38).
C4_DetailTBHalfEven ==
    \A d \in RowsBuilt :
        d.kind = "detail" =>
            LET e == d.sizeGB - 1024 * d.sizeTB
            IN  /\ 2 * Abs(e) <= 1024
                /\ 2 * Abs(e) = 1024 => d.sizeTB % 2 = 0

\* C4 as stated: the TB field of every detail record is GB/1024 rounded
\* half-up to two decimals, also when GB/1024 is exactly halfway.
C4_DetailTBHalfUp ==
    \A d \in RowsBuilt :
        d.kind = "detail" =>
            LET e == d.sizeGB - 1024 * d.sizeTB
            IN  -1024 <= 2 * e /\ 2 * e < 1024

\* a detail row of 128 GB, halfway between 0.12 and 0.13 TB, written as 0.12
C4_Witness ==
    \E k \in DOMAIN workbook.info :
        /\ workbook.info[k].kind = "detail"
        /\ workbook.info[k].sizeGB = 12800
        /\ workbook.info[k].sizeTB = 12

----------------------------------------------------------------------------
(* C5 *)

TerminalStates == {"TERMINATED", "DELETED"}

\* C5: iterating a resource whose lifecycle state is terminal (TERMINATED
\* instance or DB system, DELETED cluster) adds no detail record and changes
\* no scope summary, no grand total counter and no sheet; no detail record
\* ever carries a terminal state.
C5_TerminalNeverCounted ==
    /\ [][(pc = "items" /\ todo' = todo - 1
              /\ item'.lifecycle_state \in TerminalStates)
            => UNCHANGED <<item_list, scope_summary, summary_list, totals,
                           workbook>>]_vars
    /\ [](\A d \in RowsBuilt : d.state \notin TerminalStates)

\* a terminated DB system listed second in a compartment whose first DB
\* system was recorded
C5_Witness ==
    /\ workload = "db_systems"
    /\ pc = "items"
    /\ item.idx = 2
    /\ item.lifecycle_state = "TERMINATED"
    /\ Len(item_list) = 1
    /\ scope_summary.count = 1
    /\ totals.count = 1

----------------------------------------------------------------------------
(* C6 *)

Finished == pc \in {"format_workbook", "done"}

----------------------------------------------------------------------------
(* C7 *)

AfterTotal == pc \in {"dump_summary", "format_workbook", "done"}

\* C7: after write_grand_total returns, the grand total row it appended is
\* bold and no scope summary row is bold, on a fresh workbook and on one
\* that already held rows.
C7_GrandTotalBold ==
    AfterTotal =>
        /\ RunTotals \subseteq workbook.summary_bold
        /\ \A k \in workbook.summary_bold :
              k \in DOMAIN workbook.summary
                  => workbook.summary[k].kind # "summary"

----------------------------------------------------------------------------
(* C8 *)

\* C8: init_excel on a workbook that exists changes nothing: headers are
\* not added again, no row is erased or reordered; applying it twice is the
\* same as applying it once, whatever rows were appended before.
C8_InitExcelIdempotent ==
    /\ [](/\ init_excel(init_excel(workbook)) = init_excel(workbook)
          /\ workbook.exists => init_excel(workbook) = workbook)
    /\ [][(pc = "init_excel" /\ workbook.exists /\ pc' = "resolve")
             => workbook' = workbook]_vars

\* the second invocation has run init_excel on a workbook that holds detail
\* rows, a summary row and a total row
C8_Witness ==
    /\ rerun
    /\ pc = "region"
    /\ ri = 1
    /\ Len(workbook.info) > 1
    /\ Len(workbook.summary) > 2

----------------------------------------------------------------------------
(* C9 *)

RECURSIVE OkSizes(_)
OkSizes(vols) ==
    IF vols = <<>> THEN 0
    ELSE (IF Head(vols).status = "ok" THEN Head(vols).sizeGB ELSE 0)
            + OkSizes(Tail(vols))

\* GB of the volumes of an instance whose lookups succeeded
OkVolumesGB(it) ==
    (IF it.boot.status = "ok" THEN it.boot.sizeGB ELSE 0)
        + (IF it.blocks.status = "ok" THEN OkSizes(it.blocks.vols) ELSE 0)

AnyLookupRaises(it) ==
    \/ it.boot.status \in {"list_raises", "get_raises"}
    \/ it.blocks.status = "list_raises"
    \/ \E k \in DOMAIN it.blocks.vols : it.blocks.vols[k].status = "raises"

\* C9: instances workload: every listed instance that is not TERMINATED,
\* also one with a volume lookup that raises, adds exactly one detail record
\* after the records already built, which stay as they are; a failing volume
\* adds 0 GB to the record's size; the scope summary and the grand total
\* count the instance; the compartment's records are written to the detail
\* sheet as built.
C9_LookupFailureKeepsRow ==
    /\ [][(workload = "instances" /\ pc = "items" /\ todo' = todo - 1
              /\ item'.lifecycle_state # "TERMINATED")
            => /\ Len(item_list') = Len(item_list) + 1
               /\ SubSeq(item_list', 1, Len(item_list)) = item_list
               /\ item_list'[Len(item_list')].idx = item'.idx
               /\ item_list'[Len(item_list')].sizeGB = 100 * OkVolumesGB(item')
               /\ scope_summary'.count = scope_summary.count + 1
               /\ totals'.count = totals.count + 1]_vars
    /\ [][(workload = "instances" /\ pc = "items" /\ pc' = "compartment")
            => workbook'.info = workbook.info \o item_list]_vars

\* the second of two instances of a compartment had its boot volume lookup
\* raise; both have a record, the second with its block volume's 600 GB only
C9_Witness ==
    /\ workload = "instances"
    /\ pc = "items"
    /\ todo = 0
    /\ item.idx = 2
    /\ item.boot.status = "get_raises"
    /\ item.blocks.status = "ok"
    /\ item.blocks.vols = <<Lookup("ok", 600)>>
    /\ Len(item_list) = 2
    /\ AnyLookupRaises(item)
    /\ item_list[1].idx = 1
    /\ item_list[1].sizeGB = 120000
    /\ item_list[2].sizeGB = 60000
    /\ totals.count = 2

----------------------------------------------------------------------------
(* C10 *)

\* C10: object storage workload: a bucket whose get_bucket call raises still
\* has a detail record, of size 0, and is counted in the scope summary and
\* in the grand total.
C10_FailedBucketCounted ==
    (workload = "object_storage" /\ pc = "items" /\ item.idx > 0
        /\ item.stats.status = "raises")
      => /\ item_list # <<>>
         /\ item_list[Len(item_list)].idx = item.idx
         /\ item_list[Len(item_list)].sizeGB = 0
         /\ scope_summary.count >= 1
         /\ totals.count >= 1

----------------------------------------------------------------------------
(* C11 *)

Metrics(sm) == <<sm.count, sm.total_sizeGB, sm.total_sizeTB,
                 sm.total_node_count, sm.total_pvc_count>>

\* C11: for every workload, when the list call of a compartment or the
\* namespace lookup of a region raises, the scope is skipped: nothing is
\* written, no summary field and no grand total counter changes, and the
\* loop goes on with the next compartment or region.
C11_ListFailureSkipsScope ==
    [][(ListRaises \/ NamespaceRaises)
         => /\ \/ pc' = "compartment" /\ ci' = ci + 1 /\ ri' = ri
               \/ pc' = "region" /\ ri' = ri + 1
            /\ UNCHANGED <<workbook, totals, summary_list>>
            /\ Metrics(scope_summary') \in {Metrics(scope_summary), <<0, 0, 0, 0, 0>>}]_vars

----------------------------------------------------------------------------
(* C12 *)

\* C12: once the processing loop has started the run always completes:
\* whatever calls fail and whatever fields are absent, it eventually writes
\* the grand total row and the summary rows and finishes.
C12_RunCompletes == (pc = "region") ~> (pc = "done")

----------------------------------------------------------------------------
(* C13 *)

\* the positions between create-kubeconfig and the removal of the file
KubectlSection == {"get_pvc", "get_nodes", "finally"}

\* C13: OKE workload: the kubeconfig file of a cluster is deleted before the
\* cluster is added to any summary or counter, whether create-kubeconfig,
\* the PVC query, the PVC parsing or the node query failed or all succeeded;
\* outside a cluster's kubectl section, and at the end of the run, no
\* kubeconfig file is on disk.
C13_KubeconfigRemoved ==
    /\ [](pc \notin KubectlSection => kubeconfig_files = {})
    /\ [](pc \in KubectlSection
            => kubeconfig_files \subseteq {KubeconfigFile(item)})
    /\ [][(totals' # totals \/ scope_summary'.count > scope_summary.count)
             => kubeconfig_files = {} /\ kubeconfig_files' = {}]_vars

\* the second cluster of a compartment had its kubeconfig written and its
\* PVC query fail; the file is gone when the cluster is about to be counted
C13_Witness ==
    /\ pc = "aggregate"
    /\ item.idx = 2
    /\ item.kube.kubeconfig = "ok"
    /\ item.kube.pvc = "raises"
    /\ kubeconfig_files = {}
    /\ totals.count = 1

----------------------------------------------------------------------------
(* C14 *)

RunDetails == {k \in DOMAIN workbook.info :
                  workbook.info[k].kind = "detail"
                  /\ workbook.info[k].run = RunNo}

\* C14: each detail record is added once to one scope summary and once to
\* the grand total counters: the step that builds a record adds 1 and the
\* record's size to the current summary and to the counters, no other step
\* raises a counter, and in the finished workbook every detail row lies in
\* the scope of exactly one summary row of the run.
C14_CountedExactlyOnce ==
    /\ [][Len(item_list') = Len(item_list) + 1
            => LET d == item_list'[Len(item_list')]
               IN  /\ scope_summary'.count = scope_summary.count + 1
                   /\ scope_summary'.total_sizeGB
                          = scope_summary.total_sizeGB + d.sizeGB
                   /\ totals'.count = totals.count + 1
                   /\ totals'.sizeGB = totals.sizeGB + d.sizeGB]_vars
    /\ [][(totals' # totals \/ scope_summary'.count > scope_summary.count)
            => /\ Len(item_list') = Len(item_list) + 1
               /\ SubSeq(item_list', 1, Len(item_list)) = item_list]_vars
    /\ [](pc = "done" =>
            \A k \in RunDetails :
                Cardinality({j \in RunSummaries :
                    InScope(workbook.info[k], workbook.summary[j])}) = 1)

\* a finished oci_cs run with one detail row in each of two compartments,
\* two compartment summaries of count 1 and a grand total of 2
C14_Witness ==
    /\ script = CS
    /\ pc = "done"
    /\ Cardinality(RunDetails) = 2
    /\ Cardinality(RunSummaries) = 2
    /\ \A j \in RunSummaries : workbook.summary[j].count = 1
    /\ totals.count = 2

----------------------------------------------------------------------------
(* C15 *)

\* the scopes of a run: regions in CV, (region, compartment) pairs in oci_cs
Scopes ==
    IF script = CV THEN {<<i, 0>> : i \in DOMAIN regions}
    ELSE {<<i, c>> : i \in DOMAIN regions, c \in DOMAIN compartments}

SummaryRowsOf(sc) == {k \in RunSummaries :
                         /\ workbook.summary[k].ri = sc[1]
                         /\ workbook.summary[k].ci = sc[2]}

\* C15: within one run the scopes that end with zero counted records are
\* treated alike: either each of them has a zero-count summary row or none
\* of them has a summary row.
C15_UniformZeroPolicy ==
    pc = "done" =>
        \/ \A sc \in Scopes : SummaryRowsOf(sc) # {}
        \/ \A sc \in Scopes : \A k \in SummaryRowsOf(sc) :
               workbook.summary[k].count > 0

----------------------------------------------------------------------------
(* C16 *)

PreflightFails ==
    \/ script = CV /\ ("kubectl" \notin tools \/ "oci" \notin tools)
    \/ workload \notin {"instances", "object_storage"}
            \cup (IF script = CV THEN {"db_systems", "oke_clusters"} ELSE {})

\* C16: a run whose --workload argument is missing or names an unsupported
\* workload, or (CV) that finds kubectl or the oci CLI missing, exits with a
\* non-zero status and a message, creates no workbook and makes no cloud
\* call; and only such a run is rejected.
C16_PreflightAborts ==
    /\ pc # "main" => (pc = "exited" <=> PreflightFails)
    /\ pc = "exited" =>
          /\ exited.status > 0
          /\ exited.message # ""
          /\ workbook = NoWorkbook
          /\ ~cloud_called

\* CVOracleCloudSizingScript.py started with a supported workload on a
\* machine without kubectl has exited with status 1
C16_Witness ==
    /\ script = CV
    /\ workload = "instances"
    /\ "kubectl" \notin tools
    /\ pc = "exited"
    /\ exited.status = 1

----------------------------------------------------------------------------
(* C17 *)

\* g hundredths of GB is round(bytes / 1024^3, 2) for a size of m MiB: no
\* hundredth is nearer to m / 1024
IsRoundedGB(g, m) == 2 * Abs(1024 * g - 100 * m) <= 1024

\* C17: object storage workload: the record of a bucket whose get_bucket
\* returned has sizeGB = round(bytes / 1024^3, 2), or 0 when the size is 0
\* or absent, and sizeTB = round(sizeGB / 1024, 2), or 0 when sizeGB is 0;
\* the bucket is written and counted also when its size is 0.
C17_BucketSize ==
    [][(workload = "object_storage" /\ pc = "items" /\ todo' = todo - 1
           /\ item'.stats.status # "raises")
         => /\ Len(item_list') = Len(item_list) + 1
            /\ LET d == item_list'[Len(item_list')]
                   m == item'.stats.sizeMiB
               IN  /\ d.idx = item'.idx
                   /\ IF item'.stats.status = "ok" THEN IsRoundedGB(d.sizeGB, m)
                      ELSE d.sizeGB = 0
                   /\ 2 * Abs(d.sizeGB - 1024 * d.sizeTB) <= 1024
                   /\ d.sizeGB = 0 => d.sizeTB = 0
            /\ scope_summary'.count = scope_summary.count + 1
            /\ totals'.count = totals.count + 1]_vars

\* buckets of 1 GiB, 2 GiB and 0 bytes in one region: rows of 1.0, 2.0 and
\* 0 GB, each 0 TB, and a region summary of 3 buckets, 3.0 GB, 0.0 TB
C17_Witness ==
    /\ workload = "object_storage"
    /\ pc = "done"
    /\ Len(workbook.info) = 4
    /\ workbook.info[2].sizeGB = 100 /\ workbook.info[2].sizeTB = 0
    /\ workbook.info[3].sizeGB = 200 /\ workbook.info[3].sizeTB = 0
    /\ workbook.info[4].sizeGB = 0 /\ workbook.info[4].sizeTB = 0
    /\ \E k \in RunSummaries :
          /\ workbook.summary[k].count = 3
          /\ workbook.summary[k].total_sizeGB = 300
          /\ workbook.summary[k].total_sizeTB = 0

----------------------------------------------------------------------------
(* C18 *)

\* the positions inside the item loop of a compartment
ItemLoop == {"items", "get_pvc", "get_nodes", "finally", "aggregate"}

RecordKey(d) == <<d.run, d.ri, d.ci, d.idx>>

Written(d) == \E k \in DOMAIN workbook.info : workbook.info[k] = d

\* C18: detail records live for one compartment: the list is empty when a
\* compartment's item loop starts, the flush that ends the loop writes that
\* list, which holds records of this compartment only, no record is written
\* twice, and outside an item loop every record that was built has been
\* written.
C18_RecordsLiveOneCompartment ==
    /\ [][(pc = "compartment" /\ pc' = "items") => item_list' = <<>>]_vars
    /\ [][(pc = "items" /\ pc' = "compartment")
            => /\ workbook'.info = workbook.info \o item_list
               /\ \A k \in DOMAIN item_list :
                     item_list[k].ri = ri /\ item_list[k].ci = ci]_vars
    /\ [](\A j, k \in DOMAIN workbook.info :
             (j < k /\ workbook.info[j].kind = "detail")
                 => RecordKey(workbook.info[j]) # RecordKey(workbook.info[k]))
    /\ [](pc \notin ItemLoop => \A k \in DOMAIN item_list : Written(item_list[k]))

----------------------------------------------------------------------------
(* C19 *)

\* the process has ended after its processing loop had started
RunOver == pc \in {"done", "crashed"}

\* C19: the grand total counters are zero when the run starts and never
\* decrease; the run writes exactly one grand total row, after its last
\* detail flush, and the row counts every detail row of the run.
C19_TotalsFlushedOnce ==
    /\ [](pc = "main" => totals = ZeroTotals)
    /\ [][/\ totals'.count >= totals.count
          /\ totals'.sizeGB >= totals.sizeGB
          /\ totals'.sizeTB >= totals.sizeTB
          /\ totals'.node_count >= totals.node_count
          /\ totals'.pvc_count >= totals.pvc_count]_vars
    /\ [](Cardinality(RunTotals) <= 1)
    /\ [][workbook'.info # workbook.info => RunTotals = {}]_vars
    /\ [](RunOver =>
            /\ Cardinality(RunTotals) = 1
            /\ \A t \in RunTotals :
                  /\ workbook.summary[t].count = Cardinality(RunDetails)
                  /\ workbook.summary[t].count = totals.count)

----------------------------------------------------------------------------
(* C20 *)

\* the positions between the detail flush of one compartment and the item
\* loop of the next, and after the last flush
FlushPoint == pc \in {"compartment", "region", "write_grand_total",
                      "dump_summary", "format_workbook", "done"}

RECURSIVE SumRunGB(_)
\* sum of the GB field over the detail rows of the info sheet with index in ks
SumRunGB(ks) ==
    IF ks = {} THEN 0
    ELSE LET k == CHOOSE x \in ks : TRUE
         IN  workbook.info[k].sizeGB + SumRunGB(ks \ {k})

\* C20: at every compartment boundary, once the detail flush has returned,
\* the number of detail rows the run has written equals the grand total
\* resource counter and the sum of their GB fields equals the grand total
\* GB counter.
C20_TotalsMatchRowsAtFlush ==
    FlushPoint =>
        /\ Cardinality(RunDetails) = totals.count
        /\ SumRunGB(RunDetails) = totals.sizeGB

\* after the flush of the first of two compartments: two rows of 128 GB and
\* 600 GB written, the counters at 2 resources and 728 GB
C20_Witness ==
    /\ pc = "compartment"
    /\ ci = 2
    /\ Len(compartments) = 2
    /\ Cardinality(RunDetails) = 2
    /\ totals.count = 2
    /\ totals.sizeGB = 72800

----------------------------------------------------------------------------
(* C21 *)

\* the outcome of the cluster in the loop variable
KubeconfigFailed == item.kube.kubeconfig = "raises"
PvcQueryFailed == item.kube.kubeconfig = "ok" /\ item.kube.pvc = "raises"
OnlyNodesFailed ==
    /\ item.kube.kubeconfig = "ok"
    /\ item.kube.pvc = "ok"
    /\ ~PvcParseRaises(item.kube.pvcs)
    /\ item.kube.nodes < 0

\* C21: OKE workload: whatever step of a cluster's kubectl section fails, the
\* run goes on to the aggregation and back to the cluster loop, where the
\* cluster is counted once and gets one record.  When create-kubeconfig or
\* the PVC query raised, the record's PVC count, PVC size and node count are
\* 0 and the node query is never reached; when only the node query raised,
\* the node count is 0 and the PVC count and size are those of the PVC list.
C21_ClusterFailureContained ==
    /\ [][(pc \in KubectlSection \cup {"aggregate"})
            => pc' \in KubectlSection \cup {"aggregate", "items"}]_vars
    /\ [](pc = "get_nodes" => ~KubeconfigFailed /\ ~PvcQueryFailed)
    /\ [][(pc = "aggregate")
            => /\ pc' = "items"
               /\ todo' = todo
               /\ Len(item_list') = Len(item_list) + 1
               /\ SubSeq(item_list', 1, Len(item_list)) = item_list
               /\ totals'.count = totals.count + 1
               /\ scope_summary'.count = scope_summary.count + 1
               /\ LET d == item_list'[Len(item_list')]
                  IN  /\ d.idx = item.idx
                      /\ (KubeconfigFailed \/ PvcQueryFailed)
                            => /\ d.pvc_count = 0
                               /\ d.sizeGB = 0
                               /\ d.sizeTB = 0
                               /\ d.node_count = 0
                      /\ OnlyNodesFailed
                            => /\ d.node_count = 0
                               /\ d.pvc_count = Len(item.kube.pvcs)
                               /\ d.sizeGB = 100 * SumInts(item.kube.pvcs)
                               /\ d.sizeTB = ToTB(d.sizeGB)]_vars

\* the second cluster of a compartment has been aggregated after its
\* create-kubeconfig raised; the first one, whose node query raised, kept
\* its two PVCs
C21_Witness ==
    /\ workload = "oke_clusters"
    /\ pc = "items"
    /\ item.idx = 2
    /\ KubeconfigFailed
    /\ Len(item_list) = 2
    /\ item_list[1].pvc_count = 2
    /\ item_list[1].sizeGB = 72800
    /\ item_list[1].node_count = 0
    /\ item_list[2].pvc_count = 0
    /\ item_list[2].node_count = 0
    /\ totals.count = 2

----------------------------------------------------------------------------
(* C22 *)

\* the place of a position in one cluster's iteration
StepRank(p) ==
    CASE p = "items" -> 0
      [] p = "get_pvc" -> 1
      [] p = "get_nodes" -> 2
      [] p = "finally" -> 3
      [] p = "aggregate" -> 4
      [] OTHER -> 5

\* C22: OKE workload: within one cluster control only moves forward through
\* create-kubeconfig, the PVC query, the node query, the removal of the file
\* and the aggregation, and only the aggregation returns to the cluster loop;
\* while a query is pending the cluster's kubeconfig file exists and
\* create-kubeconfig succeeded; at the aggregation and whenever the loop is
\* about to take the next cluster no kubeconfig file exists.
C22_ClusterStepOrder ==
    /\ [][(pc \in KubectlSection \cup {"aggregate"} /\ pc' # pc)
            => IF pc = "aggregate" THEN pc' = "items"
               ELSE /\ pc' \in KubectlSection \cup {"aggregate"}
                    /\ StepRank(pc') > StepRank(pc)
                    /\ item' = item]_vars
    /\ [][(pc' \in KubectlSection \cup {"aggregate"} /\ pc' # pc)
            => /\ pc \in KubectlSection \cup {"items"}
               /\ pc' = "aggregate" => pc = "finally"
               /\ pc' = "get_nodes" => pc = "get_pvc"
               /\ pc' = "get_pvc" => pc = "items"]_vars
    /\ [](pc \in {"get_pvc", "get_nodes"}
            => /\ item.kube.kubeconfig = "ok"
               /\ KubeconfigFile(item) \in kubeconfig_files)
    /\ [](pc \in {"aggregate", "items"} => kubeconfig_files = {})
    /\ [][item' # item => kubeconfig_files = {}]_vars

\* the node query of a compartment's second cluster is pending, its
\* kubeconfig file is the only one, and the first cluster has been aggregated
C22_Witness ==
    /\ workload = "oke_clusters"
    /\ pc = "get_nodes"
    /\ item.idx = 2
    /\ kubeconfig_files = {KubeconfigFile(item)}
    /\ Len(item_list) = 1
    /\ totals.count = 1

----------------------------------------------------------------------------
(* C23 *)

\* <<a, b>> comes before <<c, d>> in region-then-compartment order
ScopeBefore(p, q) == p[1] < q[1] \/ (p[1] = q[1] /\ p[2] < q[2])

\* the (region, compartment) positions of the resolved lists
AllPairs == {<<i, c>> : i \in DOMAIN regions, c \in DOMAIN compartments}

\* list calls are issued in region-then-compartment order, none twice
ListCallsInOrder ==
    \A j, k \in DOMAIN list_calls :
        j < k => ScopeBefore(list_calls[j], list_calls[k])

\* when the run is over every position has had its list call
EveryScopeVisited ==
    pc \in {"done", "crashed"} =>
        {list_calls[k] : k \in DOMAIN list_calls} = AllPairs

\* this run's detail rows are in region, compartment, listing order
DetailRowsInOrder ==
    \A j, k \in RunDetails :
        j < k =>
            LET a == workbook.info[j]
                b == workbook.info[k]
            IN  \/ ScopeBefore(<<a.ri, a.ci>>, <<b.ri, b.ci>>)
                \/ (a.ri = b.ri /\ a.ci = b.ci /\ a.idx < b.idx)

\* this run's summary rows are in region (and compartment) order
SummaryRowsInOrder ==
    \A j, k \in RunSummaries :
        j < k =>
            ScopeBefore(<<workbook.summary[j].ri, workbook.summary[j].ci>>,
                        <<workbook.summary[k].ri, workbook.summary[k].ci>>)

\* C23: scopes are traversed in input order: every (region, compartment)
\* position of the resolved lists has its list call exactly once, in
\* region-then-compartment order, the detail rows are in region, compartment
\* and listing order, and the summary rows in region (and compartment) order.
C23_ScopesTraversedInOrder ==
    /\ ListCallsInOrder
    /\ EveryScopeVisited
    /\ DetailRowsInOrder
    /\ SummaryRowsInOrder

----------------------------------------------------------------------------
(* C24 *)

\* the run is past the head of the workload's function
Resolved == pc \notin {"main", "exited", "init_excel", "resolve"}

\* C24: once the workload's function has resolved its targets, the region
\* list it iterates is the identity API's list when __main__ passed an empty
\* one and the passed list otherwise, and likewise for compartments; every
\* list call and every row of the run is for an entry of these lists; the
\* lists __main__ holds never change.
C24_TargetResolution ==
    /\ [](Resolved =>
            /\ regions = IF main_lists.regions = <<>> THEN SubscribedRegions
                         ELSE main_lists.regions
            /\ compartments = IF main_lists.compartments = <<>>
                              THEN TenancyCompartments
                              ELSE main_lists.compartments)
    /\ [](\A k \in DOMAIN list_calls : list_calls[k] \in AllPairs)
    /\ [](\A k \in RunDetails :
            /\ workbook.info[k].ri \in DOMAIN regions
            /\ workbook.info[k].region = regions[workbook.info[k].ri])
    /\ [][main_lists' = main_lists]_vars

\* a finished run that was given one compartment and no region: it made one
\* list call in each of the two subscribed regions, for that compartment
C24_Witness ==
    /\ pc = "done"
    /\ main_lists = [regions |-> <<>>, compartments |-> <<"c1">>]
    /\ regions = <<"r1", "r2">>
    /\ compartments = <<"c1">>
    /\ list_calls = << <<1, 1>>, <<2, 1>> >>

----------------------------------------------------------------------------
(* C25 *)

\* the column of the cell that holds field f (0: no such cell)
ColumnOf(cells, f) ==
    IF \E k \in DOMAIN cells : cells[k] = f
    THEN CHOOSE k \in DOMAIN cells : cells[k] = f
    ELSE 0

\* C25: every grand total row of the summary sheet has as many cells as the
\* sheet's header row, and its count, GB and TB cells are in the columns
\* where the scope summary rows of the sheet have theirs.
C25_GrandTotalAligned ==
    \A t \in DOMAIN workbook.summary :
        workbook.summary[t].kind = "total" =>
            /\ Len(workbook.summary_cells[t]) = Len(workbook.summary_cells[1])
            /\ \A k \in DOMAIN workbook.summary :
                  workbook.summary[k].kind = "summary" =>
                      \A f \in {"count", "total_sizeGB", "total_sizeTB"} :
                          /\ ColumnOf(workbook.summary_cells[t], f) > 0
                          /\ ColumnOf(workbook.summary_cells[t], f)
                                = ColumnOf(workbook.summary_cells[k], f)

----------------------------------------------------------------------------
(* C26 *)

\* the block volumes of an instance whose get_volume succeeded
FetchedBlocks(it) ==
    IF it.blocks.status = "ok"
    THEN {k \in DOMAIN it.blocks.vols : it.blocks.vols[k].status = "ok"}
    ELSE {}

\* 1 if the boot volume's size was fetched and is positive
FetchedBoot(it) == IF it.boot.status = "ok" /\ it.boot.sizeGB > 0 THEN 1 ELSE 0

\* C26: instances workload: the record appended for an instance has
\* number_of_volumes = (1 if the boot volume size was fetched and is
\* positive) + the number of block volumes whose lookup succeeded, and its
\* sizeGB is the sum of the sizes of exactly these volumes.
C26_VolumeCountMatchesSize ==
    [][(workload = "instances" /\ Len(item_list') = Len(item_list) + 1)
         => LET d == item_list'[Len(item_list')]
            IN  /\ d.number_of_volumes
                      = FetchedBoot(item') + Cardinality(FetchedBlocks(item'))
                /\ d.sizeGB = 100 * (FetchedBoot(item') * item'.boot.sizeGB
                                       + OkSizes(item'.blocks.vols))]_vars

----------------------------------------------------------------------------
(* C27 *)

\* the other source file
OtherScript(s) == IF s = CV THEN CS ELSE CV

\* the workloads both source files have
Shared == workload \in Workloads(CV) \cap Workloads(CS)

\* the record the other source file builds for the same resource in the same
\* place
OtherInfo(it) ==
    IF workload = "instances"
    THEN InstanceInfo(OtherScript(script), RunNo, ri, ci, Region, Compartment, it)
    ELSE ObjectStorageInfo(RunNo, ri, ci, Region, Compartment, it)

\* a listed resource gets a record: it is not filtered out by its lifecycle
\* state and its lookup does not reach the loop's except branch
Counted(it) == ~IsTerminal(workload, it) /\ ~LookupRaises(workload, it)

FSizeGB(r) == r.sizeGB
FSizeTB(r) == r.sizeTB

RegionDetails(i) == {k \in RunDetails : workbook.info[k].ri = i}
RegionSummaries(i) == {k \in RunSummaries : workbook.summary[k].ri = i}

\* C27: in the workloads both files have, what a run writes does not depend
\* on which file runs: a listed resource gets a record under the same
\* conditions, its GB and TB are those the other file computes for it, the
\* grand total is the count, GB sum and TB sum of the run's detail rows, and
\* the summary rows of each region (one in CV, one per compartment in
\* oci_cs) add up to the count, GB sum and TB sum of the region's detail rows.
C27_VariantsAgree ==
    /\ [][(Shared /\ Len(item_list') = Len(item_list) + 1)
            => LET d == item_list'[Len(item_list')]
               IN  /\ d.idx = item'.idx
                   /\ d.sizeGB = OtherInfo(item').sizeGB
                   /\ d.sizeTB = OtherInfo(item').sizeTB]_vars
    /\ [][(Shared /\ item' # item /\ item'.idx > 0)
            => (Len(item_list') = Len(item_list) + 1 <=> Counted(item'))]_vars
    /\ [](Shared /\ pc = "done" =>
            /\ \A t \in RunTotals :
                  /\ workbook.summary[t].count = Cardinality(RunDetails)
                  /\ workbook.summary[t].total_sizeGB
                        = SumOver(RunDetails, FSizeGB, workbook.info)
                  /\ workbook.summary[t].total_sizeTB
                        = SumOver(RunDetails, FSizeTB, workbook.info)
            /\ \A i \in DOMAIN regions :
                  /\ SumOver(RegionSummaries(i), FCount, workbook.summary)
                        = Cardinality(RegionDetails(i))
                  /\ SumOver(RegionSummaries(i), FGB, workbook.summary)
                        = SumOver(RegionDetails(i), FSizeGB, workbook.info)
                  /\ SumOver(RegionSummaries(i), FTB, workbook.summary)
                        = SumOver(RegionDetails(i), FSizeTB, workbook.info))

\* a finished oci_cs instances run over two compartments of one region, an
\* instance in each: 128 GB of boot volume in the first, 600 GB of boot
\* volume in the second, two compartment summaries, a total of 728 GB
C27_Witness ==
    /\ script = CS
    /\ workload = "instances"
    /\ pc = "done"
    /\ Len(regions) = 1
    /\ Cardinality(RegionSummaries(1)) = 2
    /\ Cardinality(RegionDetails(1)) = 2
    /\ \E j, k \in RegionDetails(1) :
          /\ workbook.info[j].ci = 1
          /\ workbook.info[j].sizeGB = 12800
          /\ workbook.info[k].ci = 2
          /\ workbook.info[k].sizeGB = 60000
    /\ \E t \in RunTotals :
          /\ workbook.summary[t].count = 2
          /\ workbook.summary[t].total_sizeGB = 72800

----------------------------------------------------------------------------
(* C28 *)

\* the resource a detail record stands for: the idx-th entry of the listing
\* of its region and compartment
ResourceId(d) == <<regions[d.ri], compartments[d.ci], d.idx>>

RunResources == {ResourceId(workbook.info[k]) : k \in RunDetails}

\* C28: within one run no resource has two detail rows, and the grand
\* total's count is the number of distinct resources that have a row.
C28_CountedAtMostOnce ==
    /\ \A j, k \in RunDetails :
          j # k => ResourceId(workbook.info[j]) # ResourceId(workbook.info[k])
    /\ pc = "done" =>
          \A t \in RunTotals :
              workbook.summary[t].count = Cardinality(RunResources)

============================================================================
